---- MODULE Spec2Model ----
(***************************************************************************)
(* A model of the weather_data repository: the SingletonMeta metaclass and *)
(* the WeatherPipeline registry (WeatherPipeline.py), the WeatherData HTTP *)
(* client (Weather.py), the writers (Writer.py), the writer factory        *)
(* (WriterFactory.py) and the __main__ script of WeatherPipeline.py.       *)
(*                                                                         *)
(* One Python process is modelled at a time.  A process is either a        *)
(* caller that has imported the modules and invokes their operations one   *)
(* after the other (pc = "idle"), or the __main__ script (pc = "loop",     *)
(* then "done" or "crashed").  The weather_location table is durable and   *)
(* survives the process; everything else is per process.                   *)
(***************************************************************************)
EXTENDS Integers, Sequences, FiniteSets, TLC

VARIABLES
    instances,   \* SingletonMeta._instances: class name -> instance id
    initRuns,    \* times WeatherPipeline.__init__ was entered in this process
    constructed, \* times WeatherPipeline.__init__ ran to its end in this process
    table,       \* the rows of weather_location, in insertion order (durable)
    writer,      \* the value get_writer last returned to the caller
    ret,         \* what the last operation did: its arguments and its outcome
    pc,          \* position of the process: idle | loop | done | crashed
    locations,   \* __main__: the list get_locations() returned
    idx,         \* __main__: index of the next element of locations
    attempted,   \* __main__: the locations whose fetch was started, in order
    written,     \* __main__: the destinations a file was written to
    failed,      \* __main__: the locations whose processing raised
    exitCode     \* exit status of the script process (-1 while it runs)

vars == <<instances, initRuns, constructed, table, writer, ret, pc,
          locations, idx, attempted, written, failed, exitCode>>

----------------------------------------------------------------------------
(* Bounds of the model *)

\* __init__ may be entered this many times in one process
MaxInitRuns == 3
\* the largest value of the days argument that is tried
MaxDays == 1

----------------------------------------------------------------------------
(* Input domains *)

Postcodes == {"A", "B", "C"}
Dates == {"2024-01-01"}
StatusCodes == {200, 201, 299, 300, 404, 500}
WriterTypes == {"local", "azure", "bogus"}
\* values tried for the alerts and air_quality_data arguments, as strings of
\* characters: "yes", "No", "on"
FlagInputs == { <<"y", "e", "s">>, <<"N", "o">>, <<"o", "n">> }

\* a parsed JSON document: a sequence of <<key, value>> pairs; {} is <<>>
EmptyDoc == <<>>
Docs == { << <<"temp_c", 21>> >> }

\* What requests.get and response.json() can do.  jsonerr is the class of the
\* exception response.json() raises on a body that is not JSON:
\* "RequestException" for requests.exceptions.JSONDecodeError (requests >=
\* 2.27), "ValueError" for the json module's error of older releases.
Responses ==
    { [kind |-> "no_response", status |-> -1, jsonerr |-> "none", doc |-> EmptyDoc] }
    \cup { [kind |-> "response", status |-> s, jsonerr |-> "none", doc |-> d]
             : s \in StatusCodes, d \in Docs }
    \cup { [kind |-> "response", status |-> s, jsonerr |-> j, doc |-> EmptyDoc]
             : s \in StatusCodes, j \in {"RequestException", "ValueError"} }

\* what the file system does to LocalWriter.write
FsOutcomes == {"ok", "io_error"}

----------------------------------------------------------------------------
(* Helpers *)

Count(x, s) == Cardinality({ i \in 1..Len(s) : s[i] = x })
Range(s) == { s[i] : i \in 1..Len(s) }

NoRet == [op |-> "none", args |-> <<>>, outcome |-> "none", exc |-> "none",
          value |-> <<>>, requests |-> 0, writes |-> <<>>, pre |-> <<>>]

Returned(op, args, value) ==
    [NoRet EXCEPT !.op = op, !.args = args, !.outcome = "return", !.value = value]

Raised(op, args, exc) ==
    [NoRet EXCEPT !.op = op, !.args = args, !.outcome = "raise", !.exc = exc]

----------------------------------------------------------------------------
(* Weather.py: the WeatherData client *)

\* WeatherData.__init__: the API key must be in the environment
WeatherDataInit(keyPresent) ==
    IF ~keyPresent THEN [outcome |-> "raise", exc |-> "ValueError"]
    ELSE [outcome |-> "return", exc |-> "none"]

\* requests.Response.raise_for_status raises HTTPError for 4xx and 5xx
RaisesForStatus(status_code) == 400 <= status_code /\ status_code < 600

\* WeatherData.__send_request.  When requests.get itself raises, the name
\* response is never bound, and the handler's "response.status_code" raises
\* UnboundLocalError out of the method.
SendRequest(resp) ==
    IF resp.kind = "no_response"
    THEN [outcome |-> "raise", exc |-> "UnboundLocalError",
          payload |-> EmptyDoc, status |-> -1]
    ELSE IF RaisesForStatus(resp.status)
    THEN [outcome |-> "return", exc |-> "none",
          payload |-> EmptyDoc, status |-> resp.status]
    ELSE IF resp.jsonerr = "none"
    THEN [outcome |-> "return", exc |-> "none",
          payload |-> resp.doc, status |-> resp.status]
    ELSE IF resp.jsonerr = "RequestException"
    THEN [outcome |-> "return", exc |-> "none",
          payload |-> EmptyDoc, status |-> resp.status]
    ELSE [outcome |-> "raise", exc |-> "ValueError",
          payload |-> EmptyDoc, status |-> -1]

\* WeatherData.get_forecast_history: builds the URL and sends the request
GetForecastHistoryFn(date, location, resp) == SendRequest(resp)

\* str.lower on one character, and on a string
LowerChar(c) ==
    CASE c = "Y" -> "y"
      [] c = "E" -> "e"
      [] c = "S" -> "s"
      [] c = "N" -> "n"
      [] c = "O" -> "o"
      [] OTHER -> c
Lower(str) == [i \in 1..Len(str) |-> LowerChar(str[i])]

YesNo == { <<"y", "e", "s">>, <<"n", "o">> }

\* WeatherData.get_forecast_future: the validation, then the request.
\* msg names the argument the ValueError is about.
GetForecastFutureFn(location, days, alerts, air_quality_data, resp) ==
    LET alerts_normalized == Lower(alerts)
        air_quality_data_normalized == Lower(alerts)
    IN  IF days < 1
        THEN [outcome |-> "raise", exc |-> "ValueError", msg |-> "days",
              requests |-> 0, payload |-> EmptyDoc, status |-> -1]
        ELSE IF alerts_normalized \notin YesNo
        THEN [outcome |-> "raise", exc |-> "ValueError", msg |-> "alerts",
              requests |-> 0, payload |-> EmptyDoc, status |-> -1]
        ELSE IF air_quality_data_normalized \notin YesNo
        THEN [outcome |-> "raise", exc |-> "ValueError",
              msg |-> "air_quality_data",
              requests |-> 0, payload |-> EmptyDoc, status |-> -1]
        ELSE LET r == SendRequest(resp)
             IN  [outcome |-> r.outcome, exc |-> r.exc, msg |-> "none",
                  requests |-> 1, payload |-> r.payload, status |-> r.status]

----------------------------------------------------------------------------
(* Writer.py and WriterFactory.py *)

\* get_writer: "azure" returns a ModuleNotFoundError object, it does not raise
GetWriterFn(writer_type) ==
    IF writer_type = "local"
    THEN [outcome |-> "return", exc |-> "none", value |-> "LocalWriter"]
    ELSE IF writer_type = "azure"
    THEN [outcome |-> "return", exc |-> "none", value |-> "ModuleNotFoundError"]
    ELSE [outcome |-> "raise", exc |-> "ValueError", value |-> "None"]

\* the classes whose objects have a write method
WriterClasses == {"LocalWriter", "AzureBlobWriter"}

\* LocalWriter.write: makedirs, open, write; an OSError comes out of it
LocalWriterWrite(data, destination, fs) ==
    IF fs = "ok"
    THEN [outcome |-> "return", exc |-> "none", stored |-> TRUE]
    ELSE [outcome |-> "raise", exc |-> "IOError", stored |-> FALSE]

\* writer.write(data, destination) on the object w.  called: whether a write
\* method was entered at all (an exception object has none).
WriterWrite(w, data, destination, fs) ==
    IF w = "LocalWriter"
    THEN [called |-> TRUE] @@ LocalWriterWrite(data, destination, fs)
    ELSE IF w = "AzureBlobWriter"
    THEN [called |-> TRUE, outcome |-> "return", exc |-> "none", stored |-> FALSE]
    ELSE [called |-> FALSE, outcome |-> "raise", exc |-> "AttributeError",
          stored |-> FALSE]

----------------------------------------------------------------------------
(* WeatherPipeline.py: the registry and the pipeline *)

\* str(result): the text of a dict, one text per document
PyStr(doc) == [str |-> doc]

\* f"./output/{location}/{today}.json"
Destination(location, today) == <<"./output", location, today, ".json">>
Destinations == { Destination(l, d) : l \in Postcodes, d \in Dates }
                    \cup { <<"/tmp/out.json">> }

\* variants of the test: only server errors fail; every 2xx succeeds
StatusIsFailure_Only5xx(status_code) == status_code >= 500
StatusIsFailure_Not2xx(status_code) == status_code \notin 200..299

\* the test on the status code that decides whether a fetch failed
StatusIsFailure(status_code) == status_code # 200

\* WeatherPipeline.get_and_write_forecast_history
GetAndWriteForecastHistory(date, location, w, destination, resp, fs) ==
    LET f == GetForecastHistoryFn(date, location, resp)
    IN  IF f.outcome = "raise"
        THEN [outcome |-> "raise", exc |-> f.exc, fetch |-> f,
              writes |-> <<>>, stored |-> FALSE]
        ELSE IF StatusIsFailure(f.status)
        THEN [outcome |-> "raise", exc |-> "Exception:Failed to fetch data",
              fetch |-> f, writes |-> <<>>, stored |-> FALSE]
        ELSE LET wr == WriterWrite(w, PyStr(f.payload), destination, fs)
                 calls == IF wr.called
                          THEN << [data |-> PyStr(f.payload),
                                   destination |-> destination] >>
                          ELSE <<>>
             IN  [outcome |-> wr.outcome, exc |-> wr.exc, fetch |-> f,
                  writes |-> calls, stored |-> wr.stored]

\* CREATE TABLE IF NOT EXISTS: an absent table becomes the empty table
CreateTableIfNotExists(t) == t

\* variant: the column without its UNIQUE constraint
InsertRow_NoUnique(t, postcode) == [ok |-> TRUE, table |-> Append(t, postcode)]

\* INSERT INTO weather_location under the column's UNIQUE constraint
InsertRow(t, postcode) ==
    IF postcode \in Range(t)
    THEN [ok |-> FALSE, table |-> t]
    ELSE [ok |-> TRUE, table |-> Append(t, postcode)]

\* variant: the WHERE clause inverted
DeleteRows_Inverted(t, postcode) == SelectSeq(t, LAMBDA row : row = postcode)

\* DELETE FROM weather_location WHERE postcode = ?
DeleteRows(t, postcode) == SelectSeq(t, LAMBDA row : row # postcode)

\* SELECT postcode FROM weather_location, as a list
SelectPostcodes(t) == t

\* WeatherPipeline.__init__
WeatherPipelineInit(t, keyPresent) ==
    LET wd == WeatherDataInit(keyPresent)
    IN  [outcome |-> wd.outcome, exc |-> wd.exc,
         table |-> CreateTableIfNotExists(t)]

NoInstances == [c \in {} |-> 0]

\* variant: no look-up in _instances, every call constructs
SingletonMetaCall_NoLookup(inst, runs, nargs, t, keyPresent) ==
    IF nargs > 0
    THEN [outcome |-> "raise", exc |-> "TypeError", instances |-> inst,
          value |-> 0, entered |-> FALSE, table |-> t]
    ELSE IF ~keyPresent
    THEN [outcome |-> "raise", exc |-> "ValueError", instances |-> inst,
          value |-> 0, entered |-> TRUE, table |-> t]
    ELSE [outcome |-> "return", exc |-> "none",
          instances |-> [k \in {"WeatherPipeline"} |-> runs + 1],
          value |-> runs + 1, entered |-> TRUE, table |-> t]

\* SingletonMeta.__call__ for cls = WeatherPipeline, called with nargs
\* positional arguments.  runs is the number of earlier entries of __init__;
\* the object a construction makes is named by runs + 1.
SingletonMetaCall(inst, runs, nargs, t, keyPresent) ==
    IF "WeatherPipeline" \in DOMAIN inst
    THEN [outcome |-> "return", exc |-> "none", instances |-> inst,
          value |-> inst["WeatherPipeline"], entered |-> FALSE, table |-> t]
    ELSE IF nargs > 0
    THEN [outcome |-> "raise", exc |-> "TypeError", instances |-> inst,
          value |-> 0, entered |-> FALSE, table |-> t]
    ELSE LET c == WeatherPipelineInit(t, keyPresent)
         IN  IF c.outcome = "raise"
             THEN [outcome |-> "raise", exc |-> c.exc, instances |-> inst,
                   value |-> 0, entered |-> TRUE, table |-> c.table]
             ELSE [outcome |-> "return", exc |-> "none",
                   instances |-> [k \in {"WeatherPipeline"} |-> runs + 1],
                   value |-> runs + 1, entered |-> TRUE, table |-> c.table]

----------------------------------------------------------------------------
(* The state machine *)

Init ==
    /\ instances = NoInstances
    /\ initRuns = 0
    /\ constructed = 0
    /\ table = <<>>
    /\ writer = "None"
    /\ ret = NoRet
    /\ pc = "idle"
    /\ locations = <<>>
    /\ idx = 1
    /\ attempted = <<>>
    /\ written = {}
    /\ failed = {}
    /\ exitCode = -1

HasInstance == "WeatherPipeline" \in DOMAIN instances

scriptVars == <<pc, locations, idx, attempted, written, failed, exitCode>>
singletonVars == <<instances, initRuns, constructed>>

\* a caller evaluates WeatherPipeline(*args)
Construct ==
    /\ pc = "idle"
    /\ \E nargs \in {0, 1}, keyPresent \in BOOLEAN :
         LET r == SingletonMetaCall(instances, initRuns, nargs, table, keyPresent)
         IN  /\ r.entered => initRuns < MaxInitRuns
             /\ instances' = r.instances
             /\ initRuns' = IF r.entered THEN initRuns + 1 ELSE initRuns
             /\ constructed' = IF r.entered /\ r.outcome = "return"
                               THEN constructed + 1 ELSE constructed
             /\ table' = r.table
             /\ ret' = [NoRet EXCEPT !.op = "WeatherPipeline",
                                     !.args = [nargs |-> nargs, had |-> instances],
                                     !.outcome = r.outcome, !.exc = r.exc,
                                     !.value = [instance |-> r.value,
                                                entered |-> r.entered]]
    /\ UNCHANGED <<writer, scriptVars>>

\* weather_pipeline.add_location(postcode)
AddLocation ==
    /\ pc = "idle"
    /\ HasInstance
    /\ \E postcode \in Postcodes :
         LET r == InsertRow(table, postcode)
         IN  /\ table' = r.table
             /\ ret' = IF r.ok
                       THEN [Returned("add_location", <<postcode>>, "None")
                               EXCEPT !.pre = table]
                       ELSE [Raised("add_location", <<postcode>>, "Exception")
                               EXCEPT !.pre = table]
    /\ UNCHANGED <<singletonVars, writer, scriptVars>>

\* weather_pipeline.remove_location(postcode)
RemoveLocation ==
    /\ pc = "idle"
    /\ HasInstance
    /\ \E postcode \in Postcodes :
         /\ table' = DeleteRows(table, postcode)
         /\ ret' = [Returned("remove_location", <<postcode>>, "None")
                      EXCEPT !.pre = table]
    /\ UNCHANGED <<singletonVars, writer, scriptVars>>

\* weather_pipeline.get_locations()
GetLocations ==
    /\ pc = "idle"
    /\ HasInstance
    /\ ret' = [Returned("get_locations", <<>>, SelectPostcodes(table))
                 EXCEPT !.pre = table]
    /\ UNCHANGED <<singletonVars, table, writer, scriptVars>>

\* get_writer(writer_type)
GetWriter ==
    /\ pc = "idle"
    /\ \E writer_type \in WriterTypes :
         LET r == GetWriterFn(writer_type)
         IN  /\ writer' = IF r.outcome = "return" THEN r.value ELSE writer
             /\ ret' = [NoRet EXCEPT !.op = "get_writer",
                                     !.args = <<writer_type>>,
                                     !.outcome = r.outcome, !.exc = r.exc,
                                     !.value = r.value]
    /\ UNCHANGED <<singletonVars, table, scriptVars>>

\* weather_pipeline.weather_data.get_forecast_history(date, location)
GetForecastHistory ==
    /\ pc = "idle"
    /\ HasInstance
    /\ \E date \in Dates, location \in Postcodes, resp \in Responses :
         LET r == GetForecastHistoryFn(date, location, resp)
         IN  ret' = [NoRet EXCEPT !.op = "get_forecast_history",
                                  !.args = [kind |-> resp.kind],
                                  !.outcome = r.outcome, !.exc = r.exc,
                                  !.value = <<r.payload, r.status>>,
                                  !.requests = 1]
    /\ UNCHANGED <<singletonVars, table, writer, scriptVars>>

\* weather_pipeline.weather_data.get_forecast_future(location, days, alerts,
\* air_quality_data)
GetForecastFuture ==
    /\ pc = "idle"
    /\ HasInstance
    /\ \E location \in {"A"}, days \in 0..MaxDays, alerts \in FlagInputs,
          air_quality_data \in FlagInputs, resp \in Responses :
         LET r == GetForecastFutureFn(location, days, alerts,
                                      air_quality_data, resp)
         IN  ret' = [NoRet EXCEPT !.op = "get_forecast_future",
                                  !.args = [days |-> days, alerts |-> alerts,
                                            air_quality_data |-> air_quality_data,
                                            kind |-> IF r.requests = 1
                                                     THEN resp.kind ELSE "none"],
                                  !.outcome = r.outcome,
                                  !.exc = <<r.exc, r.msg>>,
                                  !.value = <<r.payload, r.status>>,
                                  !.requests = r.requests]
    /\ UNCHANGED <<singletonVars, table, writer, scriptVars>>

\* weather_pipeline.get_and_write_forecast_history(date, location, writer,
\* destination), with the object get_writer returned
GetAndWrite ==
    /\ pc = "idle"
    /\ HasInstance
    /\ writer # "None"
    /\ \E date \in Dates, location \in Postcodes, destination \in Destinations,
          resp \in Responses, fs \in FsOutcomes :
         LET r == GetAndWriteForecastHistory(date, location, writer,
                                             destination, resp, fs)
         IN  ret' = [NoRet EXCEPT !.op = "get_and_write_forecast_history",
                                  !.args = [writer |-> writer,
                                            destination |-> destination],
                                  !.outcome = r.outcome, !.exc = r.exc,
                                  !.value = r.fetch,
                                  !.requests = 1,
                                  !.writes = r.writes]
    /\ UNCHANGED <<singletonVars, table, writer, scriptVars>>

\* A new process runs WeatherPipeline.py as a script, up to the loop:
\* WeatherPipeline(), get_writer("local"), get_locations().  An exception
\* that leaves the script ends the process with exit status 1.
StartScript ==
    /\ pc \in {"idle", "done", "crashed"}
    /\ \E keyPresent \in BOOLEAN :
         LET r == SingletonMetaCall(NoInstances, 0, 0, table, keyPresent)
             w == GetWriterFn("local")
         IN  /\ instances' = r.instances
             /\ initRuns' = IF r.entered THEN 1 ELSE 0
             /\ constructed' = IF r.entered /\ r.outcome = "return" THEN 1 ELSE 0
             /\ table' = r.table
             /\ ret' = NoRet
             /\ idx' = 1
             /\ attempted' = <<>>
             /\ written' = {}
             /\ failed' = {}
             /\ IF r.outcome = "raise"
                THEN /\ pc' = "crashed"
                     /\ exitCode' = 1
                     /\ writer' = "None"
                     /\ locations' = <<>>
                ELSE /\ pc' = "loop"
                     /\ exitCode' = -1
                     /\ writer' = w.value
                     /\ locations' = SelectPostcodes(r.table)

\* one turn of the script's for loop; today is the date of the run
ScriptIterate ==
    /\ pc = "loop"
    /\ idx <= Len(locations)
    /\ \E today \in Dates, resp \in Responses, fs \in FsOutcomes :
         LET location == locations[idx]
             destination == Destination(location, today)
             r == GetAndWriteForecastHistory(today, location, writer,
                                             destination, resp, fs)
         IN  /\ attempted' = Append(attempted, location)
             /\ written' = IF r.stored THEN written \cup {destination}
                           ELSE written
             /\ failed' = IF r.outcome = "raise" THEN failed \cup {location}
                          ELSE failed
             /\ ret' = [NoRet EXCEPT !.op = "get_and_write_forecast_history",
                                     !.args = [writer |-> writer,
                                               destination |-> destination],
                                     !.outcome = r.outcome, !.exc = r.exc,
                                     !.value = r.fetch,
                                     !.requests = 1,
                                     !.writes = r.writes]
             /\ IF r.outcome = "raise"
                THEN /\ pc' = "crashed"
                     /\ exitCode' = 1
                     /\ idx' = idx
                ELSE /\ pc' = "loop"
                     /\ exitCode' = exitCode
                     /\ idx' = idx + 1
    /\ UNCHANGED <<singletonVars, table, writer, locations>>

\* the loop is over: the script prints its last line and exits with 0
ScriptFinish ==
    /\ pc = "loop"
    /\ idx > Len(locations)
    /\ pc' = "done"
    /\ exitCode' = 0
    /\ UNCHANGED <<singletonVars, table, writer, ret, locations, idx,
                   attempted, written, failed>>

\* a new process imports the modules; only the table is kept
NewProcess ==
    /\ pc \in {"done", "crashed"}
    /\ instances' = NoInstances
    /\ initRuns' = 0
    /\ constructed' = 0
    /\ writer' = "None"
    /\ ret' = NoRet
    /\ pc' = "idle"
    /\ locations' = <<>>
    /\ idx' = 1
    /\ attempted' = <<>>
    /\ written' = {}
    /\ failed' = {}
    /\ exitCode' = -1
    /\ UNCHANGED table

\* The registry and the script: processes that construct the pipeline, edit
\* and list the locations, and runs of the script over the table they leave.
Next ==
    \/ Construct
    \/ AddLocation
    \/ RemoveLocation
    \/ GetLocations
    \/ StartScript
    \/ ScriptIterate
    \/ ScriptFinish
    \/ NewProcess

Spec == Init /\ [][Next]_vars

\* The client, the factory and the pipeline's fetch-and-write, called one
\* after the other in a process where weather_pipeline = WeatherPipeline()
\* has been evaluated.
InitClient ==
    /\ instances = [k \in {"WeatherPipeline"} |-> 1]
    /\ initRuns = 1
    /\ constructed = 1
    /\ table = <<>>
    /\ writer = "None"
    /\ ret = NoRet
    /\ pc = "idle"
    /\ locations = <<>>
    /\ idx = 1
    /\ attempted = <<>>
    /\ written = {}
    /\ failed = {}
    /\ exitCode = -1

NextClient ==
    \/ GetWriter
    \/ GetForecastHistory
    \/ GetForecastFuture
    \/ GetAndWrite

SpecClient == InitClient /\ [][NextClient]_vars

----------------------------------------------------------------------------
(* Properties *)

\* the script got past WeatherPipeline() and has ended
ScriptEnded == pc \in {"done", "crashed"} /\ HasInstance

IsGetAndWrite == ret.op = "get_and_write_forecast_history"
FetchReturned == ret.value.outcome = "return"

\* C1: when a run of the script has ended, a fetch was attempted for every
\* location of the list get_locations() returned at its start, whatever
\* happened to the locations before it.
C1_EveryLocationAttempted ==
    ScriptEnded =>
        \A i \in 1..Len(locations) : locations[i] \in Range(attempted)

\* C2: get_and_write_forecast_history makes no write call when the fetch
\* returns a status code outside 200..299: the call raises the fetch failure;
\* and write calls are made only when the fetch has returned.
C2_NoWriteOnFailedFetch ==
    IsGetAndWrite =>
        /\ (FetchReturned /\ ret.value.status \notin 200..299) =>
               /\ ret.outcome = "raise"
               /\ ret.exc = "Exception:Failed to fetch data"
               /\ ret.writes = <<>>
        /\ ret.writes # <<>> => FetchReturned

\* C2 witness: the fetch returned ({}, 500) and the call raised
C2_Witness ==
    /\ IsGetAndWrite
    /\ FetchReturned
    /\ ret.value.status = 500
    /\ ret.value.payload = EmptyDoc
    /\ ret.outcome = "raise"
    /\ ret.args.writer = "LocalWriter"

C5_FailureOnlyAfterAllAttempted ==
    ScriptEnded =>
        /\ attempted = locations
        /\ (exitCode # 0) <=> (failed # {})

\* C6: get_forecast_future raises ValueError, with no request sent, whenever
\* alerts or air_quality_data is not "yes" or "no" in any letter case.
C6_EachFlagValidated ==
    (/\ ret.op = "get_forecast_future"
     /\ \/ Lower(ret.args.alerts) \notin YesNo
        \/ Lower(ret.args.air_quality_data) \notin YesNo)
    => (ret.outcome = "raise" /\ ret.exc[1] = "ValueError" /\ ret.requests = 0)

\* C7: get_writer raises the unsupported-type error for every type it has no
\* writer for, and whatever it returns is a Writer.
C7_FactoryFailuresRaise ==
    ret.op = "get_writer" =>
        /\ ret.args[1] # "local" =>
              (ret.outcome = "raise" /\ ret.exc = "ValueError")
        /\ ret.outcome = "return" => ret.value \in WriterClasses

\* C8: when no response was received, get_forecast_history and
\* get_forecast_future return the empty payload with status code 0.
C8_NoResponseReturnsStatus0 ==
    (/\ ret.op \in {"get_forecast_history", "get_forecast_future"}
     /\ ret.requests = 1
     /\ ret.args.kind = "no_response")
    => (ret.outcome = "return" /\ ret.value = <<EmptyDoc, 0>>)

\* the one write call get_and_write_forecast_history makes on success
TheWrite == << [data |-> PyStr(ret.value.payload),
                destination |-> ret.args.destination] >>

C10_Singleton ==
    /\ constructed <= 1
    /\ HasInstance => constructed = 1
    /\ ret.op = "WeatherPipeline" =>
          /\ ret.args.had # NoInstances =>
                /\ ret.outcome = "return"
                /\ ~ret.value.entered
                /\ ret.value.instance = ret.args.had["WeatherPipeline"]
                /\ instances = ret.args.had
          /\ ret.outcome = "raise" => instances = NoInstances
          /\ ret.outcome = "return" =>
                (HasInstance /\ instances["WeatherPipeline"] = ret.value.instance)

\* C10 witness: the first construction failed, the second made the instance,
\* and a later call with an argument returned that instance
C10_Witness ==
    /\ ret.op = "WeatherPipeline"
    /\ ret.args.had # NoInstances
    /\ ret.args.nargs = 1
    /\ ret.outcome = "return"
    /\ initRuns = 2
    /\ constructed = 1

====
